---- MODULE Spec2Model ----
(***************************************************************************)
(* Ops assistant: intent routing -> policy validation -> tool execution.   *)
(* Model of agent/router.py, agent/policy.py, agent/tools_ssh.py and the   *)
(* generate() pipeline of app.py.                                          *)
(*                                                                         *)
(* Python strings that the code inspects character by character (the user  *)
(* message, filenames, keywords) are sequences of one-character strings.   *)
(* Python values of varying type (a JSON value produced by the classifier) *)
(* are records carrying a type tag.                                        *)
(***************************************************************************)
EXTENDS Integers, Sequences, FiniteSets, TLC

VARIABLES
  pc,            \* position in chat_endpoint / generate()
  user_message,  \* the stripped request text
  history,       \* roles of build_context(conv, all_messages)
  chat_messages, \* roles of the message list route() assembled
  classifier,    \* how the classifier call went this turn ("unused" if not called)
  action,        \* generate()'s local `action` (the router's object, then check's return)
  routed,        \* the object route() returned, in its current state (check may mutate it)
  proposed,      \* snapshot of the value route() returned, as returned
  check_ret,     \* the value check() returned
  exc,           \* exception raised inside generate(), "" if none
  run_tool_calls,\* calls of run_tool in this turn
  run_tool_arg,  \* the action run_tool was called with
  remote,        \* the remote command issued by the tool: [cmd, n]
  tool_output,   \* class of the text run_tool returned
  tool_runs,     \* ToolRun rows added in this turn: sequence of [tool_name, status]
  sessions_open, \* SSH sessions currently open
  sessions_opened, \* SSH sessions opened in this turn
  outcomes,      \* how the remote host answered the sessions of this turn's tool
  events,        \* SSE events yielded in this turn
  calls          \* number of check() calls made (policy specification)

vars == << pc, user_message, history, chat_messages, classifier, action, routed,
           proposed, check_ret, exc, run_tool_calls, run_tool_arg, remote,
           tool_output, tool_runs, sessions_open, sessions_opened, outcomes, events,
           calls >>

----------------------------------------------------------------------------
(* Bounds of the model *)

\* user messages are up to MaxWords phrases joined by single spaces
MaxWords == 2
\* histories hold up to MaxHistory earlier messages before the current one
MaxHistory == 2

----------------------------------------------------------------------------
(* Strings *)

UpperChars == <<"A","B","C","D","E","F","G","H","I","J","K","L","M","N","O","P","Q","R","S","T","U","V","W","X","Y","Z">>
LowerChars == <<"a","b","c","d","e","f","g","h","i","j","k","l","m","n","o","p","q","r","s","t","u","v","w","x","y","z">>
DigitChars == <<"0","1","2","3","4","5","6","7","8","9">>

Range(s) == { s[i] : i \in DOMAIN s }

UpperSet == Range(UpperChars)
WordChars == Range(LowerChars) \cup Range(UpperChars) \cup Range(DigitChars) \cup {"_"}

\* the lower-case letter of each upper-case letter
LowerOf ==
  [ c \in UpperSet |-> LowerChars[CHOOSE i \in DOMAIN UpperChars : UpperChars[i] = c] ]

\* str.lower() on one character
LowerChar(c) == IF c \in UpperSet THEN LowerOf[c] ELSE c

\* str.lower()
Lower(s) == [ i \in DOMAIN s |-> LowerChar(s[i]) ]

\* Python's `sub in s` for strings
Contains(s, sub) ==
  \E i \in 0..(Len(s) - Len(sub)) :
    \A k \in 1..Len(sub) : s[i + k] = sub[k]

\* str.startswith
StartsWith(s, prefix) ==
  /\ Len(prefix) <= Len(s)
  /\ \A k \in 1..Len(prefix) : s[k] = prefix[k]

\* the regular expression class \w
IsWordChar(c) == c \in WordChars

\* the last position of the run of word characters that holds position i
RECURSIVE RunEnd(_, _)
RunEnd(s, i) ==
  IF i = Len(s) \/ ~IsWordChar(s[i + 1]) THEN i ELSE RunEnd(s, i + 1)

\* set(re.findall(r"\b\w+\b", s)): the maximal runs of word characters
Tokens(s) ==
  LET starts == { i \in DOMAIN s :
                    IsWordChar(s[i]) /\ (i = 1 \/ ~IsWordChar(s[i - 1])) }
  IN  { SubSeq(s, i, RunEnd(s, i)) : i \in starts }

\* " ".join(ws)
RECURSIVE JoinWords(_)
JoinWords(ws) ==
  IF Len(ws) = 0 THEN << >>
  ELSE IF Len(ws) = 1 THEN ws[1]
  ELSE ws[1] \o <<" ">> \o JoinWords(Tail(ws))

\* the texts of 1..n phrases of the list `phrases`, joined by spaces
RECURSIVE PhraseSeqs(_, _)
PhraseSeqs(phrases, n) ==
  IF n = 0 THEN { << >> }
  ELSE LET shorter == PhraseSeqs(phrases, n - 1)
       IN  shorter \cup { Append(ws, phrases[i]) :
                            ws \in { w \in shorter : Len(w) = n - 1 },
                            i \in DOMAIN phrases }

Texts(phrases, n) == { JoinWords(ws) : ws \in PhraseSeqs(phrases, n) \ { << >> } }

----------------------------------------------------------------------------
(* Python values *)

\* the value of a dict key: a type tag and the payload of that type
KindVal(t, s)  == [t |-> t, s |-> s]     \* s: the text str(value) gives
LinesVal(t, n) == [t |-> t, n |-> n]     \* n: the number, 0 unless int or bool
FileVal(t, s)  == [t |-> t, s |-> s]     \* s: the characters, << >> unless str

Absent     == "absent"
NoKind     == KindVal(Absent, "")
NoLines    == LinesVal(Absent, 0)
NoFilename == FileVal(Absent, << >>)
NoReason   == << >>

Str(name)     == KindVal("str", name)
IntLines(n)   == LinesVal("int", n)
StrFile(s)    == FileVal("str", s)

\* a Python value a turn can hold as `action`; py is its type
Value(py, kind, lines, filename, content, question, reason) ==
  [ py |-> py, action |-> kind, lines |-> lines, filename |-> filename,
    content |-> content, question |-> question, reason |-> reason ]

Dict(kind, lines, filename, content, question, reason) ==
  Value("dict", kind, lines, filename, content, question, reason)

\* a value that is not a dict: a JSON array, number, string or null
NonDict(py) == Value(py, NoKind, NoLines, NoFilename, Absent, Absent, NoReason)

\* no value at all (nothing assigned yet)
NoAction == NonDict("unset")

\* {"action": name}
Simple(name) == Dict(Str(name), NoLines, NoFilename, Absent, Absent, NoReason)

\* {"action": "refuse", "reason": reason}
Refuse(reason) == Dict(Str("refuse"), NoLines, NoFilename, Absent, Absent, reason)

\* {"action": "ask_clarification", "question": question}
Clarify(question) ==
  Dict(Str("ask_clarification"), NoLines, NoFilename, Absent, question, NoReason)

\* dict.get(key, default) for the keys the code reads
GetKind(a, default)     == IF a.action.t = Absent THEN default ELSE a.action
GetLines(a, default)    == IF a.lines.t = Absent THEN default ELSE a.lines
GetFilename(a, default) == IF a.filename.t = Absent THEN default ELSE a.filename

----------------------------------------------------------------------------
(* agent/policy.py *)

DESTRUCTIVE_KEYWORDS ==
  << <<"d","e","l","e","t","e">>,
     <<"r","e","m","o","v","e">>,
     <<"r","m">>,
     <<"d","r","o","p">>,
     <<"w","i","p","e">>,
     <<"f","o","r","m","a","t">>,
     <<"s","t","o","p">>,
     <<"r","e","s","t","a","r","t">>,
     <<"r","e","b","o","o","t">>,
     <<"s","h","u","t","d","o","w","n">>,
     <<"k","i","l","l">>,
     <<"p","k","i","l","l">>,
     <<"c","l","e","a","n">>,
     <<"p","u","r","g","e">>,
     <<"u","n","i","n","s","t","a","l","l">> >>

FORBIDDEN_PATHS ==
  << <<"~","/",".","s","s","h">>,
     <<"/","e","t","c","/","s","h","a","d","o","w">>,
     <<".","e","n","v">>,
     <<"i","d","_","r","s","a">>,
     <<"i","d","_","e","d","2","5","5","1","9">>,
     <<"/","r","o","o","t">>,
     <<"/","e","t","c","/","p","a","s","s","w","d">>,
     <<"a","u","t","h","o","r","i","z","e","d","_","k","e","y","s">>,
     <<"k","n","o","w","n","_","h","o","s","t","s">> >>

\* an allowlist that leaves out the refusal
AllowedToolsWithoutRefuse ==
  { "get_disk_free", "get_ram_usage", "get_cpu_usage", "get_uptime",
    "tail_nginx_error", "tail_nginx_access", "list_workspace_files",
    "create_text_file", "read_text_file", "ask_clarification" }

ALLOWED_TOOLS ==
  { "get_disk_free", "get_ram_usage", "get_cpu_usage", "get_uptime",
    "tail_nginx_error", "tail_nginx_access", "list_workspace_files",
    "create_text_file", "read_text_file", "ask_clarification", "refuse" }

FileTools == { "create_text_file", "read_text_file" }
TailTools == { "tail_nginx_error", "tail_nginx_access" }

\* the three numbers of the lines rule
PolicyLinesFallback == 50
PolicyLinesDefault  == 20
PolicyLinesMax      == 200

\* what check() does: return a value, or raise; `arg` is the state the
\* caller's dict is left in (check assigns into it)
Returned(ret, arg) == [ exc |-> "",   ret |-> ret,      arg |-> arg ]
Raised(e, arg)     == [ exc |-> e,    ret |-> NoAction, arg |-> arg ]

\* `tool not in ALLOWED_TOOLS`, for a hashable tool
NotAllowed(tool) == ~(tool.t = "str" /\ tool.s \in ALLOWED_TOOLS)

\* the screen without .lower()
HasDestructiveKeywordCaseSensitive(msg) ==
  \E i \in DOMAIN DESTRUCTIVE_KEYWORDS : Contains(msg, DESTRUCTIVE_KEYWORDS[i])

\* any(kw in msg_lower for kw in DESTRUCTIVE_KEYWORDS)
HasDestructiveKeyword(msg) ==
  LET msg_lower == Lower(msg)
  IN  \E i \in DOMAIN DESTRUCTIVE_KEYWORDS :
        Contains(msg_lower, DESTRUCTIVE_KEYWORDS[i])

\* a screen that covers the file tools only
ScreenedToolOnlyFiles(tool) == tool \in FileTools

\* tool not in ("ask_clarification", "refuse")
ScreenedTool(tool) == tool \notin { "ask_clarification", "refuse" }

\* the loop without the absolute-path test
ForbiddenFilenameNoAbsolute(filename) ==
  \E i \in DOMAIN FORBIDDEN_PATHS :
    \/ Contains(filename, FORBIDDEN_PATHS[i])
    \/ Contains(filename, <<".", ".">>)

\* the condition of the forbidden-path loop, for a str filename
ForbiddenFilename(filename) ==
  \E i \in DOMAIN FORBIDDEN_PATHS :
    \/ Contains(filename, FORBIDDEN_PATHS[i])
    \/ Contains(filename, <<".", ".">>)
    \/ StartsWith(filename, <<"/">>)

\* isinstance(lines, int): bool is a subclass of int
IsInt(lines) == lines.t \in { "int", "bool" }

\* the lines rule with `lines < 0` for `lines < 1`
ClampLinesZeroPasses(a) ==
  LET lines == GetLines(a, IntLines(PolicyLinesFallback))
  IN  IF ~IsInt(lines) \/ lines.n < 0
        THEN [a EXCEPT !.lines = IntLines(PolicyLinesDefault)]
      ELSE IF lines.n > PolicyLinesMax
        THEN [a EXCEPT !.lines = IntLines(PolicyLinesMax)]
      ELSE a

\* the lines rule with a missing `lines` read as None
ClampLinesMissingClamped(a) ==
  LET lines == GetLines(a, LinesVal("null", 0))
  IN  IF ~IsInt(lines) \/ lines.n < 1
        THEN [a EXCEPT !.lines = IntLines(PolicyLinesDefault)]
      ELSE IF lines.n > PolicyLinesMax
        THEN [a EXCEPT !.lines = IntLines(PolicyLinesMax)]
      ELSE a

\* the lines rule: the dict after the assignment, if any
ClampLines(a) ==
  LET lines == GetLines(a, IntLines(PolicyLinesFallback))
  IN  IF ~IsInt(lines) \/ lines.n < 1
        THEN [a EXCEPT !.lines = IntLines(PolicyLinesDefault)]
      ELSE IF lines.n > PolicyLinesMax
        THEN [a EXCEPT !.lines = IntLines(PolicyLinesMax)]
      ELSE a

\* the path rule for file tools, given that no earlier rule returned
CheckFilename(a) ==
  LET filename == GetFilename(a, StrFile(<< >>))
  IN  IF filename.t = "str"
        THEN IF ForbiddenFilename(filename.s)
               THEN Returned(Refuse(<<"path">>), a)
               ELSE Returned(a, a)
      ELSE IF filename.t = "list"
        \* `forbidden in []` is False, then [].startswith raises
        THEN Raised("AttributeError", a)
        \* `forbidden in None`, `forbidden in 5`
        ELSE Raised("TypeError", a)

check(a, msg) ==
  IF a.py # "dict"
    THEN Raised("AttributeError", a)            \* no .get on a non-dict
  ELSE
    LET tool == GetKind(a, Str(""))
    IN  IF tool.t = "list"
          THEN Raised("TypeError", a)           \* unhashable in a set lookup
        ELSE IF NotAllowed(tool)
          THEN Returned(Refuse(<<"unknown_tool", tool.s>>), a)
        ELSE IF HasDestructiveKeyword(msg) /\ ScreenedTool(tool.s)
          THEN Returned(Refuse(<<"destructive">>), a)
        ELSE IF tool.s \in FileTools
          THEN CheckFilename(a)
        ELSE IF tool.s \in TailTools
          THEN Returned(ClampLines(a), ClampLines(a))
        ELSE Returned(a, a)

----------------------------------------------------------------------------
(* ollama_client.py *)

\* How one classifier call can go.  outcome: the HTTP exchange; form: the
\* shape of the returned content; value: the JSON value the content holds.
Reply(outcome, form, value) == [ outcome |-> outcome, form |-> form, value |-> value ]

NoReply == Reply("unused", "none", NoAction)

\* chat(): the content on success; every failure becomes RuntimeError
chat(reply) ==
  IF reply.outcome = "ok"
    THEN [ exc |-> "", raw |-> reply ]
    ELSE [ exc |-> "RuntimeError", raw |-> NoReply ]

----------------------------------------------------------------------------
(* agent/router.py *)

RouterDefaultLines == 50
HistoryWindow == 6

W_nginx     == <<"n","g","i","n","x">>
W_error     == <<"e","r","r","o","r">>
W_access    == <<"a","c","c","e","s","s">>
W_cpu       == <<"c","p","u">>
W_processor == <<"p","r","o","c","e","s","s","o","r">>
W_ram       == <<"r","a","m">>
W_memory    == <<"m","e","m","o","r","y">>
W_disk      == <<"d","i","s","k">>
W_storage   == <<"s","t","o","r","a","g","e">>
W_space     == <<"s","p","a","c","e">>
W_uptime    == <<"u","p","t","i","m","e">>
W_running   == <<"r","u","n","n","i","n","g">>
W_workspace == <<"w","o","r","k","s","p","a","c","e">>
W_files     == <<"f","i","l","e","s">>
W_list      == <<"l","i","s","t">>
W_create    == <<"c","r","e","a","t","e">>
W_file      == <<"f","i","l","e">>
W_read      == <<"r","e","a","d">>

\* {"action": kind, "lines": 50}
TailAction(kind) ==
  Dict(Str(kind), IntLines(RouterDefaultLines), NoFilename, Absent, Absent, NoReason)

\* the conditions of the keyword rules, in the order the code tests them
RuleNginxError(normalized, tokens) ==
  Contains(normalized, W_nginx) /\ Contains(normalized, W_error)
RuleNginxAccess(normalized, tokens) ==
  Contains(normalized, W_nginx) /\ Contains(normalized, W_access)
RuleCpu(normalized, tokens)    == W_cpu \in tokens \/ W_processor \in tokens
\* the ram rule on substrings instead of tokens
RuleRamSubstring(normalized, tokens) ==
  Contains(normalized, W_ram) \/ Contains(normalized, W_memory)
RuleRam(normalized, tokens)    == W_ram \in tokens \/ W_memory \in tokens
RuleDisk(normalized, tokens)   ==
  W_disk \in tokens \/ W_storage \in tokens \/ W_space \in tokens
RuleUptime(normalized, tokens) == W_uptime \in tokens \/ W_running \in tokens
RuleWorkspace(normalized, tokens) ==
  Contains(normalized, W_workspace) /\ (W_files \in tokens \/ W_list \in tokens)
RuleCreate(normalized, tokens) == W_create \in tokens /\ W_file \in tokens
RuleRead(normalized, tokens)   == W_read \in tokens /\ W_file \in tokens

\* the rules with read tested before create
FallbackActionReadFirst(text) ==
  LET normalized == Lower(text)
      tokens     == Tokens(normalized)
  IN  IF RuleNginxError(normalized, tokens)  THEN TailAction("tail_nginx_error")
      ELSE IF RuleNginxAccess(normalized, tokens) THEN TailAction("tail_nginx_access")
      ELSE IF RuleCpu(normalized, tokens)    THEN Simple("get_cpu_usage")
      ELSE IF RuleRam(normalized, tokens)    THEN Simple("get_ram_usage")
      ELSE IF RuleDisk(normalized, tokens)   THEN Simple("get_disk_free")
      ELSE IF RuleUptime(normalized, tokens) THEN Simple("get_uptime")
      ELSE IF RuleWorkspace(normalized, tokens) THEN Simple("list_workspace_files")
      ELSE IF RuleRead(normalized, tokens)   THEN Clarify("whichfile")
      ELSE IF RuleCreate(normalized, tokens) THEN Clarify("newfile")
      ELSE NoAction

\* _fallback_action(text); NoAction stands for None
FallbackAction(text) ==
  LET normalized == Lower(text)
      tokens     == Tokens(normalized)
  IN  IF RuleNginxError(normalized, tokens)  THEN TailAction("tail_nginx_error")
      ELSE IF RuleNginxAccess(normalized, tokens) THEN TailAction("tail_nginx_access")
      ELSE IF RuleCpu(normalized, tokens)    THEN Simple("get_cpu_usage")
      ELSE IF RuleRam(normalized, tokens)    THEN Simple("get_ram_usage")
      ELSE IF RuleDisk(normalized, tokens)   THEN Simple("get_disk_free")
      ELSE IF RuleUptime(normalized, tokens) THEN Simple("get_uptime")
      ELSE IF RuleWorkspace(normalized, tokens) THEN Simple("list_workspace_files")
      ELSE IF RuleCreate(normalized, tokens) THEN Clarify("newfile")
      ELSE IF RuleRead(normalized, tokens)   THEN Clarify("whichfile")
      ELSE NoAction

\* the fixed clarification _extract_json degrades to
DidNotUnderstand == Clarify("rephrase")

\* _extract_json(text).  form "json": json.loads(text) succeeds; "embedded":
\* it fails and the first {...} block parses; "embedded_bad": that block does
\* not parse; "text": no block; "null": the content is not a string
ExtractJson(raw) ==
  IF raw.form = "null"
    THEN [ exc |-> "AttributeError", ret |-> NoAction ]   \* None.strip()
  ELSE IF raw.form = "json"
    THEN [ exc |-> "", ret |-> raw.value ]
  ELSE IF raw.form = "embedded"
    THEN [ exc |-> "", ret |-> raw.value ]
  ELSE [ exc |-> "", ret |-> DidNotUnderstand ]

\* history[-6:]
LastN(s, n) == IF Len(s) <= n THEN s ELSE SubSeq(s, Len(s) - n + 1, Len(s))

\* the roles of the message list route() builds
RouteMessages(hist) ==
  <<"system">>
    \o SelectSeq(LastN(hist, HistoryWindow), LAMBDA r : r \in {"user", "assistant"})
    \o <<"user">>

\* route(user_message, history), under the classifier behaviour `reply`:
\* the value returned or the exception raised, the messages built, and
\* whether chat() was called
route(msg, hist, reply) ==
  LET messages == RouteMessages(hist)
      fallback == FallbackAction(msg)
  IN  IF fallback # NoAction
        THEN [ exc |-> "", ret |-> fallback, messages |-> messages, called |-> FALSE ]
      ELSE
        LET c == chat(reply)
        IN  IF c.exc # ""
              THEN [ exc |-> c.exc, ret |-> NoAction, messages |-> messages,
                     called |-> TRUE ]
              ELSE [ exc |-> ExtractJson(c.raw).exc, ret |-> ExtractJson(c.raw).ret,
                     messages |-> messages, called |-> TRUE ]

----------------------------------------------------------------------------
(* agent/tools_ssh.py *)

ExecutorDefaultLines == 50
ExecutorMinLines     == 20
ExecutorMaxLines     == 200

SSH_WORKDIR ==
  <<"/","h","o","m","e","/","n","e","x","a","p","p","-","s","e","r","v","e","r",
    "/","o","p","s","_","w","o","r","k","s","p","a","c","e">>

Max(a, b) == IF a >= b THEN a ELSE b
Min(a, b) == IF a <= b THEN a ELSE b

\* How the remote host can answer one session:
\*   "ok"  exit status 0 with output     "empty"  exit status 0, no output
\*   "exit1", "exit2"  non-zero exit status with text on stderr
\*   "connect_fail"  connect() raises     "exec_fail"  the operation raises
RemoteOutcomes == { "ok", "empty", "exit1", "exit2", "connect_fail", "exec_fail" }

\* _run without its finally clause: the session stays open when the
\* operation raises
RunWithoutFinally(outcome) ==
  IF outcome = "connect_fail"
    THEN [ exc |-> "SSHException", out |-> FALSE, code |-> 0, opened |-> 0, closed |-> 0 ]
  ELSE IF outcome = "exec_fail"
    THEN [ exc |-> "SSHException", out |-> FALSE, code |-> 0, opened |-> 1, closed |-> 0 ]
  ELSE [ exc |-> "",
         out |-> (outcome = "ok"),
         code |-> (IF outcome = "exit1" THEN 1 ELSE IF outcome = "exit2" THEN 2 ELSE 0),
         opened |-> 1, closed |-> 1 ]

\* _run(cmd) under a remote outcome: the tuple returned or the exception,
\* and the sessions it opened and closed
Run(outcome) ==
  IF outcome = "connect_fail"
    THEN [ exc |-> "SSHException", out |-> FALSE, code |-> 0, opened |-> 0, closed |-> 0 ]
  ELSE IF outcome = "exec_fail"
    THEN [ exc |-> "SSHException", out |-> FALSE, code |-> 0, opened |-> 1, closed |-> 1 ]
  ELSE [ exc |-> "",
         out |-> (outcome = "ok"),
         code |-> (IF outcome = "exit1" THEN 1 ELSE IF outcome = "exit2" THEN 2 ELSE 0),
         opened |-> 1, closed |-> 1 ]

\* str.replace("..", ""): non-overlapping occurrences, left to right
RECURSIVE RemoveDotDot(_)
RemoveDotDot(s) ==
  IF Len(s) = 0 THEN << >>
  ELSE IF Len(s) >= 2 /\ s[1] = "." /\ s[2] = "."
    THEN RemoveDotDot(SubSeq(s, 3, Len(s)))
    ELSE <<s[1]>> \o RemoveDotDot(Tail(s))

\* posixpath.basename: what follows the last "/"
Basename(s) ==
  LET slashes == { i \in DOMAIN s : s[i] = "/" }
  IN  IF slashes = {} THEN s
      ELSE SubSeq(s, (CHOOSE i \in slashes : \A j \in slashes : j <= i) + 1, Len(s))

\* _safe_workdir_path(filename): the path, or ValueError
SafeWorkdirPath(filename) ==
  LET safe_name == Basename(RemoveDotDot(filename))
  IN  IF Len(safe_name) = 0
        THEN [ exc |-> "ValueError", path |-> << >> ]
        ELSE [ exc |-> "", path |-> SSH_WORKDIR \o <<"/">> \o safe_name ]

\* the text a tool returns: its literal head, and what follows it
\* ("" nothing, "out" remote stdout, "err" remote stderr, "exc" an exception text)
Text(head, rest) == [ head |-> head, rest |-> rest ]

T_Error       == <<"E","r","r","o","r">>
T_ErrorColon  == <<"E","r","r","o","r",":"," ">>
T_ToolError   == <<"T","o","o","l"," ","e","r","r","o","r"," ","(">>
T_UnknownTool == <<"U","n","k","n","o","w","n"," ","t","o","o","l",":"," ">>
T_ErrorListing == <<"E","r","r","o","r"," ","l","i","s","t","i","n","g"," ","w","o","r","k","s","p","a","c","e",":"," ">>
T_ErrorCreating == <<"E","r","r","o","r"," ","c","r","e","a","t","i","n","g"," ","f","i","l","e",":"," ">>
T_ErrorReading == <<"E","r","r","o","r"," ","r","e","a","d","i","n","g"," ","f","i","l","e",":"," ">>
T_Permission  == <<"I"," ","c","a","n","'","t"," ","r","e","a","d"," ","t","h","e"," ","n","g","i","n","x"," ","l","o","g">>
T_LogEmpty    == <<"N","g","i","n","x"," ","l","o","g"," ","i","s"," ","e","m","p","t","y",".">>
T_Unable      == <<"U","n","a","b","l","e"," ","t","o"," ","r","e","a","d"," ","C","P","U"," ","u","s","a","g","e",".">>
T_WsEmpty     == <<"W","o","r","k","s","p","a","c","e"," ","i","s"," ","e","m","p","t","y",".">>
T_Created     == <<"F","i","l","e"," ","c","r","e","a","t","e","d">>
T_FileEmpty   == <<"(","F","i","l","e"," ","i","s"," ","e","m","p","t","y",")">>

\* the remote operation a tool issued
Cmd(name, n, path) == [ cmd |-> name, n |-> n, path |-> path ]
NoCmd == Cmd("none", 0, << >>)

\* what a tool function did: text returned or exception raised, the remote
\* operation, sessions opened and closed
Did(e, text, cmd, opened, closed) ==
  [ exc |-> e, text |-> text, cmd |-> cmd, opened |-> opened, closed |-> closed ]

\* get_disk_free, get_ram_usage, get_cpu_usage: one command, "Error: " on non-zero exit
Metric(name, empty_text, o1) ==
  LET r == Run(o1)
  IN  IF r.exc # "" THEN Did(r.exc, Text(<< >>, ""), Cmd(name, 0, << >>), r.opened, r.closed)
      ELSE IF r.code # 0
        THEN Did("", Text(T_ErrorColon, "err"), Cmd(name, 0, << >>), r.opened, r.closed)
      ELSE IF r.out
        THEN Did("", Text(<< >>, "out"), Cmd(name, 0, << >>), r.opened, r.closed)
      ELSE Did("", empty_text, Cmd(name, 0, << >>), r.opened, r.closed)

\* get_uptime: a second command when the first exits non-zero
Uptime(o1, o2) ==
  LET r1 == Run(o1)
      r2 == Run(o2)
  IN  IF r1.exc # "" THEN Did(r1.exc, Text(<< >>, ""), Cmd("uptime", 0, << >>), r1.opened, r1.closed)
      ELSE IF r1.code = 0
        THEN Did("", IF r1.out THEN Text(<< >>, "out") ELSE Text(T_ErrorColon, "err"),
                 Cmd("uptime", 0, << >>), r1.opened, r1.closed)
      ELSE IF r2.exc # ""
        THEN Did(r2.exc, Text(<< >>, ""), Cmd("uptime", 0, << >>),
                 r1.opened + r2.opened, r1.closed + r2.closed)
      ELSE Did("", IF r2.out THEN Text(<< >>, "out") ELSE Text(T_ErrorColon, "err"),
               Cmd("uptime", 0, << >>), r1.opened + r2.opened, r1.closed + r2.closed)

\* tail_nginx_error / tail_nginx_access (lines)
TailLog(name, lines, o1) ==
  IF ~IsInt(lines)
    THEN Did("TypeError", Text(<< >>, ""), NoCmd, 0, 0)      \* min(lines, 200)
  ELSE
    LET n == Max(ExecutorMinLines, Min(lines.n, ExecutorMaxLines))
        r == Run(o1)
    IN  IF r.exc # "" THEN Did(r.exc, Text(<< >>, ""), Cmd(name, n, << >>), r.opened, r.closed)
        ELSE IF r.code = 1
          THEN Did("", Text(T_Permission, ""), Cmd(name, n, << >>), r.opened, r.closed)
        ELSE IF r.out
          THEN Did("", Text(<< >>, "out"), Cmd(name, n, << >>), r.opened, r.closed)
        ELSE Did("", Text(T_LogEmpty, ""), Cmd(name, n, << >>), r.opened, r.closed)

\* list_workspace_files
ListWorkspace(o1) ==
  LET r == Run(o1)
  IN  IF r.exc # "" THEN Did(r.exc, Text(<< >>, ""), Cmd("ls", 0, SSH_WORKDIR), r.opened, r.closed)
      ELSE IF r.code # 0
        THEN Did("", Text(T_ErrorListing, "err"), Cmd("ls", 0, SSH_WORKDIR), r.opened, r.closed)
      ELSE IF r.out
        THEN Did("", Text(<< >>, "out"), Cmd("ls", 0, SSH_WORKDIR), r.opened, r.closed)
      ELSE Did("", Text(T_WsEmpty, ""), Cmd("ls", 0, SSH_WORKDIR), r.opened, r.closed)

\* create_text_file / read_text_file over SFTP
FileTool(name, filename, o1) ==
  IF filename.t # "str"
    THEN Did("AttributeError", Text(<< >>, ""), NoCmd, 0, 0)  \* filename.replace
  ELSE
    LET p == SafeWorkdirPath(filename.s)
    IN  IF p.exc # "" THEN Did("", Text(T_ErrorColon, "exc"), NoCmd, 0, 0)
        ELSE IF o1 = "connect_fail"
          THEN Did("SSHException", Text(<< >>, ""), Cmd(name, 0, p.path), 0, 0)
        ELSE IF o1 = "exec_fail"
          THEN Did("", Text(IF name = "sftp_write" THEN T_ErrorCreating ELSE T_ErrorReading, "exc"),
                   Cmd(name, 0, p.path), 1, 1)
        ELSE IF o1 \in { "exit1", "exit2" }
          \* the file is not there: reading reports it; writing creates it
          THEN Did("", IF name = "sftp_write" THEN Text(T_Created, "") ELSE Text(<< >>, "not found"),
                   Cmd(name, 0, p.path), 1, 1)
        ELSE IF name = "sftp_write"
          THEN Did("", Text(T_Created, ""), Cmd(name, 0, p.path), 1, 1)
        ELSE Did("", IF o1 = "ok" THEN Text(<< >>, "out") ELSE Text(T_FileEmpty, ""),
                 Cmd(name, 0, p.path), 1, 1)

\* the answers of the remote host that an invocation met: that of its
\* first session, and that of its second if it opened one
NoOutcomes == << "none", "none" >>

SecondRun(a, o1) ==
  a.action = Str("get_uptime") /\ Run(o1).exc = "" /\ Run(o1).code # 0

Outcomes(a, d, o1, o2) ==
  IF d.cmd = NoCmd THEN NoOutcomes
  ELSE << o1, IF SecondRun(a, o1) THEN o2 ELSE "none" >>

\* the names TOOL_MAP holds
ToolMapKeys ==
  { "get_disk_free", "get_ram_usage", "get_cpu_usage", "get_uptime",
    "tail_nginx_error", "tail_nginx_access", "list_workspace_files",
    "create_text_file", "read_text_file" }

NoteTxt == <<"n","o","t","e",".","t","x","t">>

\* TOOL_MAP[tool_name](a)
ToolMap(tool_name, a, o1, o2) ==
  IF tool_name = "get_disk_free" THEN Metric("df", Text(<< >>, "out"), o1)
  ELSE IF tool_name = "get_ram_usage" THEN Metric("free", Text(<< >>, "out"), o1)
  ELSE IF tool_name = "get_cpu_usage" THEN Metric("top", Text(T_Unable, ""), o1)
  ELSE IF tool_name = "get_uptime" THEN Uptime(o1, o2)
  ELSE IF tool_name = "tail_nginx_error"
    THEN TailLog("tail_error", GetLines(a, IntLines(ExecutorDefaultLines)), o1)
  ELSE IF tool_name = "tail_nginx_access"
    THEN TailLog("tail_access", GetLines(a, IntLines(ExecutorDefaultLines)), o1)
  ELSE IF tool_name = "list_workspace_files" THEN ListWorkspace(o1)
  ELSE IF tool_name = "create_text_file"
    THEN FileTool("sftp_write", GetFilename(a, StrFile(NoteTxt)), o1)
  ELSE FileTool("sftp_read", GetFilename(a, StrFile(<< >>)), o1)

\* run_tool(action): never raises
run_tool(a, o1, o2) ==
  LET tool_name == a.action
  IN  IF ~(tool_name.t = "str" /\ tool_name.s \in ToolMapKeys)
        THEN Did("", Text(T_UnknownTool, "name"), NoCmd, 0, 0)
      ELSE
        LET d == ToolMap(tool_name.s, a, o1, o2)
        IN  IF d.exc # ""
              THEN Did("", Text(T_ToolError, "exc"), d.cmd, d.opened, d.closed)
              ELSE d

----------------------------------------------------------------------------
(* Inputs *)

\* phrases of user messages for a whole turn
TurnPhrases ==
  << <<"h","o","w"," ","m","u","c","h"," ","d","i","s","k"," ","s","p","a","c","e"," ","i","s"," ","l","e","f","t">>,
     <<"p","l","e","a","s","e"," ","d","e","l","e","t","e"," ","t","h","e"," ","a","c","c","e","s","s"," ","l","o","g">>,
     <<"s","h","o","w"," ","m","e"," ","t","h","e"," ","n","g","i","n","x"," ","l","o","g">>,
     <<"n","g","i","n","x"," ","e","r","r","o","r">>,
     <<"R","e","s","t","a","r","t">>,
     <<"c","r","e","a","t","e"," ","f","i","l","e">>,
     <<"h","e","l","l","o">> >>

\* phrases of user messages for the policy validator
PolicyPhrases ==
  DESTRUCTIVE_KEYWORDS \o
  << <<"a","l","a","r","m">>,
     <<"D","E","L","E","T","E">>,
     <<"s","h","o","w">> >>

\* phrases of user messages for the router
RouterPhrases ==
  << W_nginx, W_error, W_access, W_cpu, W_processor, W_ram, W_memory, W_disk,
     W_storage, W_space, W_uptime, W_running, W_workspace, W_list,
     W_create, W_file,
     <<"w","o","r","k","s","p","a","c","e"," ","f","i","l","e","s">>,
     <<"r","e","a","d"," ","f","i","l","e">>,
     <<"C","P","U">>,
     <<"c","p","u","_","u","s","a","g","e">>,
     <<"p","r","o","g","r","a","m">> >>

\* values of `lines` a classifier can produce
LinesSamples ==
  { NoLines, LinesVal("null", 0), LinesVal("str", 0), LinesVal("float", 0),
    LinesVal("bool", 1) }
  \cup { IntLines(n) : n \in { -5, 0, 1, 20, 50, 200, 201, 500 } }

\* values of `filename` a classifier can produce
FilenameSamples ==
  { NoFilename, FileVal("null", << >>), FileVal("int", << >>), FileVal("list", << >>) }
  \cup { StrFile(f) : f \in
           { NoteTxt,
             << >>,
             <<".">>,
             <<".",".","/","x">>,
             <<"a",".",".","b">>,
             <<"/","t","m","p","/","x">>,
             <<"m","y",".","e","n","v">>,
             <<"k","e","y","s","/","i","d","_","r","s","a">>,
             <<"d","i","r","/","n","o","t","e",".","t","x","t">>,
             <<"s","u","b","/">> } }

\* values of `action` a classifier can produce
KindSamples ==
  { Str(k) : k \in ALLOWED_TOOLS \cup { "run_shell" } }
  \cup { NoKind, KindVal("null", "None"), KindVal("int", "7"), KindVal("list", "[]") }

\* JSON objects a classifier can produce: every kind, and every sample of the
\* parameters the policy validator reads
ModelDicts ==
  { Dict(k, NoLines, NoFilename, Absent, Absent, NoReason) : k \in KindSamples }
  \cup { Dict(Str(k), l, NoFilename, Absent, Absent, NoReason) :
           k \in TailTools, l \in LinesSamples }
  \cup { Dict(Str("create_text_file"), NoLines, f, "hello", Absent, NoReason) :
           f \in FilenameSamples }
  \cup { Dict(Str("read_text_file"), NoLines, f, Absent, Absent, NoReason) :
           f \in FilenameSamples }
  \cup { Clarify("model"), Refuse(<<"model">>) }

\* JSON values that are not objects
ModelNonDicts == { NonDict(py) : py \in { "list", "int", "str", "null" } }

\* the JSON objects among them that a turn is run with: every kind, and
\* parameters on each side of each rule
TurnDicts ==
  { Dict(k, NoLines, NoFilename, Absent, Absent, NoReason) : k \in KindSamples }
  \cup { Dict(Str("tail_nginx_error"), l, NoFilename, Absent, Absent, NoReason) :
           l \in { LinesVal("null", 0), IntLines(0), IntLines(5), IntLines(20),
                   IntLines(500) } }
  \cup { Dict(Str("tail_nginx_access"), IntLines(201), NoFilename, Absent, Absent, NoReason) }
  \cup { Dict(Str("create_text_file"), NoLines, f, "hello", Absent, NoReason) :
           f \in { NoFilename, StrFile(NoteTxt), StrFile(<<".",".","/","x">>) } }
  \cup { Dict(Str("read_text_file"), NoLines, f, Absent, Absent, NoReason) :
           f \in FilenameSamples }
  \cup { Clarify("model"), Refuse(<<"model">>) }

\* every way a classifier call can go
Replies ==
  { Reply("ok", "json", v) : v \in TurnDicts \cup ModelNonDicts }
  \cup { Reply("ok", "embedded", v) :
           v \in { Simple("get_disk_free"), Simple("run_shell") } }
  \cup { Reply("ok", f, NoAction) : f \in { "embedded_bad", "text", "null" } }
  \cup { Reply(o, "none", NoAction) : o \in { "ConnectionError", "Timeout", "HTTPError" } }

\* build_context(): an optional summary entry, earlier messages, then the
\* message of this turn
Alternating(n) == [ i \in 1..n |-> IF (n - i) % 2 = 0 THEN "assistant" ELSE "user" ]

Histories ==
  { summary \o Alternating(n) \o <<"user">> :
      summary \in { << >>, <<"system">> }, n \in 0..MaxHistory }

----------------------------------------------------------------------------
(* app.py: chat_endpoint and its generate() *)

NotCalled == <<"unused", "none">>

\* the per-turn state before generate() starts
TurnStart(msg, hist) ==
  /\ user_message' = msg
  /\ history' = hist
  /\ chat_messages' = << >>
  /\ classifier' = NotCalled
  /\ action' = NoAction
  /\ routed' = NoAction
  /\ proposed' = NoAction
  /\ check_ret' = NoAction
  /\ exc' = ""
  /\ run_tool_calls' = 0
  /\ run_tool_arg' = NoAction
  /\ remote' = NoCmd
  /\ tool_output' = Text(<< >>, "")
  /\ tool_runs' = << >>
  /\ sessions_opened' = 0
  /\ outcomes' = NoOutcomes
  /\ events' = << >>

Init ==
  /\ pc = "idle"
  /\ user_message = << >>
  /\ history = << >>
  /\ chat_messages = << >>
  /\ classifier = NotCalled
  /\ action = NoAction
  /\ routed = NoAction
  /\ proposed = NoAction
  /\ check_ret = NoAction
  /\ exc = ""
  /\ run_tool_calls = 0
  /\ run_tool_arg = NoAction
  /\ remote = NoCmd
  /\ tool_output = Text(<< >>, "")
  /\ tool_runs = << >>
  /\ sessions_open = 0
  /\ sessions_opened = 0
  /\ outcomes = NoOutcomes
  /\ events = << >>
  /\ calls = 0

\* chat_endpoint up to the creation of generate(): a non-empty stripped
\* message and the context of its conversation
Receive ==
  /\ pc = "idle"
  /\ \E msg \in Texts(TurnPhrases, MaxWords), hist \in Histories :
       TurnStart(msg, hist)
  /\ pc' = "route"
  /\ UNCHANGED << sessions_open, calls >>

\* the classifier behaviours a message can meet: none when a keyword rule
\* answers, since chat() is then not called
ClassifierReplies(msg) ==
  IF FallbackAction(msg) # NoAction THEN { NoReply } ELSE Replies

\* action = route(user_message, history)
Route ==
  /\ pc = "route"
  /\ \E reply \in ClassifierReplies(user_message) :
       LET r == route(user_message, history, reply)
       IN  /\ chat_messages' = r.messages
           /\ classifier' = IF r.called THEN <<reply.outcome, reply.form>> ELSE NotCalled
           /\ exc' = r.exc
           /\ action' = r.ret
           /\ routed' = r.ret
           /\ proposed' = r.ret
           /\ pc' = IF r.exc = "" THEN "check"
                    ELSE IF r.exc = "RuntimeError" THEN "except"
                    ELSE "crashed"
  /\ UNCHANGED << user_message, history, check_ret, run_tool_calls, run_tool_arg,
                  remote, tool_output, tool_runs, sessions_open, sessions_opened, outcomes,
                  events, calls >>

\* action = check(action, user_message)
Check ==
  /\ pc = "check"
  /\ LET c == check(action, user_message)
     IN  /\ exc' = c.exc
         /\ routed' = c.arg
         /\ check_ret' = c.ret
         /\ action' = IF c.exc = "" THEN c.ret ELSE action
         \* AttributeError and TypeError are not RuntimeError: not caught
         /\ pc' = IF c.exc = "" THEN "dispatch" ELSE "crashed"
  /\ UNCHANGED << user_message, history, chat_messages, classifier, proposed,
                  run_tool_calls, run_tool_arg, remote, tool_output, tool_runs,
                  sessions_open, sessions_opened, outcomes, events, calls >>

\* a branch that forgets the refusal
IsMetaActionClarifyOnly(tool_name) ==
  tool_name.t = "str" /\ tool_name.s = "ask_clarification"

\* tool_name == "ask_clarification" or tool_name == "refuse"
IsMetaAction(tool_name) ==
  tool_name.t = "str" /\ tool_name.s \in { "ask_clarification", "refuse" }

\* the meta-action branches: format_clarification / format_refusal
RespondMeta ==
  /\ pc = "dispatch"
  /\ IsMetaAction(action.action)
  /\ pc' = "save"
  /\ UNCHANGED << user_message, history, chat_messages, classifier, action, routed,
                  proposed, check_ret, exc, run_tool_calls, run_tool_arg, remote,
                  tool_output, tool_runs, sessions_open, sessions_opened, outcomes, events,
                  calls >>

\* tool_output = run_tool(action)
RunTool ==
  /\ pc = "dispatch"
  /\ ~IsMetaAction(action.action)
  /\ \E o1 \in RemoteOutcomes, o2 \in RemoteOutcomes :
       LET d == run_tool(action, o1, o2)
       IN  /\ tool_output' = d.text
           /\ remote' = d.cmd
           /\ sessions_open' = sessions_open + d.opened - d.closed
           /\ sessions_opened' = d.opened
           /\ outcomes' = Outcomes(action, d, o1, o2)
  /\ run_tool_calls' = run_tool_calls + 1
  /\ run_tool_arg' = action
  /\ pc' = "log"
  /\ UNCHANGED << user_message, history, chat_messages, classifier, action, routed,
                  proposed, check_ret, exc, tool_runs, events, calls >>

\* "ok" if "Error" not in tool_output else "error", on the literal part of the text
ToolRunStatus(text) == IF Contains(text.head, T_Error) THEN "error" ELSE "ok"

\* db.session.add(ToolRun(...)), then format_tool_result (which never raises)
LogToolRun ==
  /\ pc = "log"
  /\ tool_runs' = Append(tool_runs,
                         [ tool_name |-> action.action.s,
                           status |-> ToolRunStatus(tool_output) ])
  /\ pc' = "save"
  /\ UNCHANGED << user_message, history, chat_messages, classifier, action, routed,
                  proposed, check_ret, exc, run_tool_calls, run_tool_arg, remote,
                  tool_output, sessions_open, sessions_opened, outcomes, events, calls >>

\* the assistant message is saved and the reply streamed to its done event
SaveAndStream ==
  /\ pc = "save"
  /\ events' = <<"session", "conv_id", "token", "done">>
  /\ pc' = "done"
  /\ UNCHANGED << user_message, history, chat_messages, classifier, action, routed,
                  proposed, check_ret, exc, run_tool_calls, run_tool_arg, remote,
                  tool_output, tool_runs, sessions_open, sessions_opened, outcomes, calls >>

\* except RuntimeError: the error event
HandleRuntimeError ==
  /\ pc = "except"
  /\ events' = <<"error">>
  /\ pc' = "done"
  /\ UNCHANGED << user_message, history, chat_messages, classifier, action, routed,
                  proposed, check_ret, exc, run_tool_calls, run_tool_arg, remote,
                  tool_output, tool_runs, sessions_open, sessions_opened, outcomes, calls >>

\* the request is over (the stream ended, or the exception left generate());
\* the worker waits for the next request; what outlives the turn is kept
EndTurn ==
  /\ pc \in { "done", "crashed" }
  /\ TurnStart(<< >>, << >>)
  /\ pc' = "idle"
  /\ UNCHANGED << sessions_open, calls >>

Next ==
  \/ Receive
  \/ EndTurn
  \/ Route
  \/ Check
  \/ RespondMeta
  \/ RunTool
  \/ LogToolRun
  \/ SaveAndStream
  \/ HandleRuntimeError

Spec == Init /\ [][Next]_vars

----------------------------------------------------------------------------
(* The policy validator on its own: check() applied to an action and a     *)
(* message, then applied again to what it returned.                        *)

\* the actions check() is given: what a classifier or a keyword rule can
\* produce
CheckInputs ==
  ModelDicts \cup ModelNonDicts
    \cup { TailAction(k) : k \in TailTools }
    \cup { Clarify("newfile"), Clarify("whichfile"), DidNotUnderstand }

InitCheck ==
  /\ pc = "policy"
  /\ user_message \in Texts(PolicyPhrases, MaxWords)
  /\ action \in CheckInputs
  /\ history = << >>
  /\ chat_messages = << >>
  /\ classifier = NotCalled
  /\ routed = action
  /\ proposed = action
  /\ check_ret = NoAction
  /\ exc = ""
  /\ run_tool_calls = 0
  /\ run_tool_arg = NoAction
  /\ remote = NoCmd
  /\ tool_output = Text(<< >>, "")
  /\ tool_runs = << >>
  /\ sessions_open = 0
  /\ sessions_opened = 0
  /\ outcomes = NoOutcomes
  /\ events = << >>
  /\ calls = 0

\* one call check(action, user_message); the next call is given its result
CheckCall(from, to) ==
  /\ pc = from
  /\ exc = ""
  /\ LET c == check(action, user_message)
     IN  /\ exc' = c.exc
         /\ proposed' = action
         /\ routed' = c.arg
         /\ check_ret' = c.ret
         /\ action' = IF c.exc = "" THEN c.ret ELSE action
  /\ calls' = calls + 1
  /\ pc' = to
  /\ UNCHANGED << user_message, history, chat_messages, classifier, run_tool_calls,
                  run_tool_arg, remote, tool_output, tool_runs, sessions_open,
                  sessions_opened, outcomes, events >>

CheckFirst == CheckCall("policy", "checked")
CheckAgain == CheckCall("checked", "rechecked")

NextCheck ==
  \/ CheckFirst
  \/ CheckAgain

SpecCheck == InitCheck /\ [][NextCheck]_vars

----------------------------------------------------------------------------
(* The router on its own: route() applied to a message and a history.      *)

InitRoute ==
  /\ pc = "route"
  /\ user_message \in Texts(RouterPhrases, MaxWords)
  /\ history \in Histories
  /\ chat_messages = << >>
  /\ classifier = NotCalled
  /\ action = NoAction
  /\ routed = NoAction
  /\ proposed = NoAction
  /\ check_ret = NoAction
  /\ exc = ""
  /\ run_tool_calls = 0
  /\ run_tool_arg = NoAction
  /\ remote = NoCmd
  /\ tool_output = Text(<< >>, "")
  /\ tool_runs = << >>
  /\ sessions_open = 0
  /\ sessions_opened = 0
  /\ outcomes = NoOutcomes
  /\ events = << >>
  /\ calls = 0

NextRoute == Route

SpecRoute == InitRoute /\ [][NextRoute]_vars

----------------------------------------------------------------------------
(* Vocabulary of the properties *)

\* sub occurs in s, letter case ignored (sub is lower case)
ContainsIgnoreCase(s, sub) ==
  \E i \in 0..(Len(s) - Len(sub)) :
    \A k \in 1..Len(sub) : LowerChar(s[i + k]) = sub[k]

\* the message holds one of the destructive keywords as a substring
MentionsDestructive(msg) ==
  \E i \in DOMAIN DESTRUCTIVE_KEYWORDS : ContainsIgnoreCase(msg, DESTRUCTIVE_KEYWORDS[i])

\* w stands in s as a whole word, letter case ignored
HasWord(s, w) ==
  \E i \in 0..(Len(s) - Len(w)) :
    /\ \A k \in 1..Len(w) : LowerChar(s[i + k]) = w[k]
    /\ (i = 0 \/ s[i] \notin WordChars)
    /\ (i + Len(w) = Len(s) \/ s[i + Len(w) + 1] \notin WordChars)

MetaKinds == { "ask_clarification", "refuse" }

\* an action object whose kind is an executable (non-meta) allowlisted kind
IsExecutable(a) ==
  a.py = "dict" /\ a.action.t = "str" /\ a.action.s \in ALLOWED_TOOLS \ MetaKinds

IsRefusal(a) == a.py = "dict" /\ a.action = Str("refuse")

\* check() has been called on `proposed` and has returned or raised
Checked == calls >= 1

\* generate() is past its call of check(), which returned
PastCheck == pc \in { "dispatch", "log", "save", "done" } /\ check_ret # NoAction

----------------------------------------------------------------------------
(* Properties of a turn *)

\* C1: in every turn run_tool is called at most once, only after check has
\* returned, only with the action check returned, and only when that
\* action's kind is allowlisted and not a meta-action; a turn whose checked
\* action is a refusal or a clarification runs nothing remotely and logs
\* no tool run.
ExecutorOnlyAfterPolicy ==
  /\ run_tool_calls <= 1
  /\ Len(tool_runs) <= run_tool_calls
  /\ run_tool_calls = 1 =>
       /\ check_ret # NoAction
       /\ exc = ""
       /\ run_tool_arg = check_ret
       /\ IsExecutable(run_tool_arg)
  /\ (check_ret # NoAction /\ ~IsExecutable(check_ret)) =>
       /\ run_tool_calls = 0
       /\ tool_runs = << >>
       /\ remote = NoCmd
       /\ sessions_opened = 0
  /\ check_ret = NoAction =>
       /\ run_tool_calls = 0
       /\ tool_runs = << >>
       /\ remote = NoCmd

\* a classifier's action was approved, executed and logged, and the turn ended
ExecutorOnlyAfterPolicyWitness ==
  /\ pc = "done"
  /\ classifier = <<"ok", "json">>
  /\ run_tool_calls = 1
  /\ Len(tool_runs) = 1
  /\ remote # NoCmd
  /\ run_tool_arg = check_ret


\* C3 as stated: in a turn whose message holds a destructive keyword, the
\* action after policy validation is refuse, whatever the Router proposed,
\* and run_tool is never called.
DestructiveTurnEndsInRefuse ==
  MentionsDestructive(user_message) =>
    /\ run_tool_calls = 0
    /\ PastCheck => IsRefusal(action)

\* C3 as amended: in such a turn run_tool is never called, and the action
\* after policy validation is a meta-action: refuse, except that an
\* ask_clarification the Router proposed is returned unchanged.
DestructiveTurnEndsInMetaAction ==
  MentionsDestructive(user_message) =>
    /\ run_tool_calls = 0
    /\ remote = NoCmd
    /\ tool_runs = << >>
    /\ PastCheck =>
         /\ action = check_ret
         /\ \/ IsRefusal(action)
            \/ /\ proposed.action = Str("ask_clarification")
               /\ action = proposed

\* a destructive message was answered by the clarification the Router proposed
DestructiveTurnEndsInMetaActionWitness ==
  /\ pc = "done"
  /\ MentionsDestructive(user_message)
  /\ events # <<"error">>
  /\ action.action = Str("ask_clarification")
  /\ action = proposed

MissingLinesClampedTo20 ==
  ( /\ PastCheck
    /\ IsExecutable(proposed)
    /\ proposed.action.s \in TailTools
    /\ proposed.lines = NoLines
    /\ ~MentionsDestructive(user_message) )
  =>
    /\ check_ret.lines = IntLines(20)
    /\ run_tool_calls = 1 => remote.n = 20

\* C7 as amended: such an action comes back from check unchanged, still
\* without a `lines` parameter, and the remote tail runs with 50 lines.
MissingLinesRunWith50 ==
  ( /\ PastCheck
    /\ IsExecutable(proposed)
    /\ proposed.action.s \in TailTools
    /\ proposed.lines = NoLines
    /\ ~MentionsDestructive(user_message) )
  =>
    /\ check_ret = proposed
    /\ check_ret.lines = NoLines
    /\ run_tool_calls = 1 =>
         /\ remote.cmd \in { "tail_error", "tail_access" }
         /\ remote.n = 50

\* a classifier's {"action": "tail_nginx_error"} was run to the end of the turn
MissingLinesRunWith50Witness ==
  /\ pc = "done"
  /\ classifier = <<"ok", "json">>
  /\ proposed = Simple("tail_nginx_error")
  /\ run_tool_calls = 1
  /\ remote = Cmd("tail_error", 50, << >>)

----------------------------------------------------------------------------
(* Properties of the policy validator *)

UnknownKindRefused ==
  ( /\ Checked
    /\ proposed.py = "dict"
    /\ ~(proposed.action.t = "str" /\ proposed.action.s \in ALLOWED_TOOLS) )
  =>
    /\ exc = ""
    /\ check_ret = Refuse(<<"unknown_tool", proposed.action.s>>)

CheckIdempotent ==
  (pc = "rechecked" /\ exc = "") => check_ret = proposed

\* a refusal for a destructive message went through check again unchanged
CheckIdempotentWitness ==
  /\ pc = "rechecked"
  /\ exc = ""
  /\ MentionsDestructive(user_message)
  /\ proposed = Refuse(<<"destructive">>)
  /\ check_ret = proposed

----------------------------------------------------------------------------
(* Properties of the router *)

\* route() has been called
Routed == pc # "route"

\* C9: route never raises and returns an action object that has a kind,
\* however the classifier call goes; every failure of that call becomes an
\* ask_clarification action.
RouteAlwaysReturnsAction ==
  Routed =>
    /\ exc = ""
    /\ action.py = "dict"
    /\ action.action.t # Absent
    /\ (classifier # NotCalled /\ classifier # <<"ok", "json">>
          /\ classifier # <<"ok", "embedded">>)
         => action.action = Str("ask_clarification")

\* the keyword conditions, read off the message
SaysNginxError(msg)  == ContainsIgnoreCase(msg, W_nginx) /\ ContainsIgnoreCase(msg, W_error)
SaysNginxAccess(msg) == ContainsIgnoreCase(msg, W_nginx) /\ ContainsIgnoreCase(msg, W_access)
SaysCpu(msg)    == HasWord(msg, W_cpu) \/ HasWord(msg, W_processor)
SaysRam(msg)    == HasWord(msg, W_ram) \/ HasWord(msg, W_memory)
SaysDisk(msg)   == HasWord(msg, W_disk) \/ HasWord(msg, W_storage) \/ HasWord(msg, W_space)
SaysUptime(msg) == HasWord(msg, W_uptime) \/ HasWord(msg, W_running)

\* route returned this value without calling the classifier
Answered(a) == exc = "" /\ classifier = NotCalled /\ action = a

Tail50(kind) == Dict(Str(kind), IntLines(50), NoFilename, Absent, Absent, NoReason)

\* C10 as stated: under every history the presence of a keyword alone
\* decides the result: cpu/processor -> get_cpu_usage, ram/memory ->
\* get_ram_usage, disk/storage/space -> get_disk_free, uptime/running ->
\* get_uptime, nginx and error -> tail_nginx_error with lines = 50, nginx and
\* access -> tail_nginx_access with lines = 50.
KeywordAloneDecides ==
  Routed =>
    /\ SaysCpu(user_message)    => Answered(Simple("get_cpu_usage"))
    /\ SaysRam(user_message)    => Answered(Simple("get_ram_usage"))
    /\ SaysDisk(user_message)   => Answered(Simple("get_disk_free"))
    /\ SaysUptime(user_message) => Answered(Simple("get_uptime"))
    /\ SaysNginxError(user_message)  => Answered(Tail50("tail_nginx_error"))
    /\ SaysNginxAccess(user_message) => Answered(Tail50("tail_nginx_access"))

\* C10 as amended: under every history the first keyword condition that
\* holds, in the order nginx and error, nginx and access, cpu/processor,
\* ram/memory, disk/storage/space, uptime/running, decides the result.
FirstKeywordDecides ==
  LET m == user_message
  IN  Routed =>
        /\ SaysNginxError(m) => Answered(Tail50("tail_nginx_error"))
        /\ (SaysNginxAccess(m) /\ ~SaysNginxError(m))
             => Answered(Tail50("tail_nginx_access"))
        /\ (SaysCpu(m) /\ ~SaysNginxError(m) /\ ~SaysNginxAccess(m))
             => Answered(Simple("get_cpu_usage"))
        /\ (SaysRam(m) /\ ~SaysCpu(m) /\ ~SaysNginxError(m) /\ ~SaysNginxAccess(m))
             => Answered(Simple("get_ram_usage"))
        /\ (SaysDisk(m) /\ ~SaysRam(m) /\ ~SaysCpu(m) /\ ~SaysNginxError(m)
              /\ ~SaysNginxAccess(m))
             => Answered(Simple("get_disk_free"))
        /\ (SaysUptime(m) /\ ~SaysDisk(m) /\ ~SaysRam(m) /\ ~SaysCpu(m)
              /\ ~SaysNginxError(m) /\ ~SaysNginxAccess(m))
             => Answered(Simple("get_uptime"))

\* a message naming ram and disk was routed to get_ram_usage, under a
\* history with a summary and earlier messages
FirstKeywordDecidesWitness ==
  /\ Routed
  /\ SaysRam(user_message)
  /\ SaysDisk(user_message)
  /\ Len(history) >= 3
  /\ history[1] = "system"
  /\ Answered(Simple("get_ram_usage"))

\* the remaining keyword conditions, read off the message
SaysWorkspace(msg) ==
  ContainsIgnoreCase(msg, W_workspace) /\ (HasWord(msg, W_files) \/ HasWord(msg, W_list))
SaysCreate(msg) == HasWord(msg, W_create) /\ HasWord(msg, W_file)
SaysRead(msg)   == HasWord(msg, W_read) /\ HasWord(msg, W_file)

\* the nine conditions in the order of the deterministic tier, and the
\* action of each
RuleConditions(msg) ==
  << SaysNginxError(msg), SaysNginxAccess(msg), SaysCpu(msg), SaysRam(msg),
     SaysDisk(msg), SaysUptime(msg), SaysWorkspace(msg), SaysCreate(msg),
     SaysRead(msg) >>

RuleActions ==
  << Tail50("tail_nginx_error"), Tail50("tail_nginx_access"),
     Simple("get_cpu_usage"), Simple("get_ram_usage"), Simple("get_disk_free"),
     Simple("get_uptime"), Simple("list_workspace_files"),
     Clarify("newfile"), Clarify("whichfile") >>

\* C11: the deterministic tier is first-match in the fixed order nginx and
\* error, nginx and access, cpu/processor, ram/memory, disk/storage/space,
\* uptime/running, workspace and files/list, create and file, read and file:
\* route returns the action of the first rule whose condition the text
\* satisfies, without calling the classifier, and the classifier is called
\* if and only if no rule matches.
RouterFirstMatch ==
  LET conds == RuleConditions(user_message)
  IN  Routed =>
        /\ \A i \in DOMAIN conds :
             (conds[i] /\ \A j \in 1..(i - 1) : ~conds[j]) => Answered(RuleActions[i])
        /\ (classifier # NotCalled) <=> (\A i \in DOMAIN conds : ~conds[i])

\* a message that asks to create and to read a file got the answer of the
\* create rule
RouterFirstMatchWitness ==
  /\ Routed
  /\ SaysCreate(user_message)
  /\ SaysRead(user_message)
  /\ Answered(Clarify("newfile"))

----------------------------------------------------------------------------
(* Totality and frame of the policy validator *)

\* C12: check is total: for every action object and every message, an
\* object with a missing kind, missing parameters or parameters of the
\* wrong type included, check returns an action object and never raises.
CheckNeverRaises ==
  (Checked /\ proposed.py = "dict") =>
    /\ exc = ""
    /\ check_ret.py = "dict"
    /\ (check_ret = proposed \/ IsRefusal(check_ret)
          \/ check_ret.action = proposed.action)

\* C13: check has no side effect on its input: after check(a, t) the object
\* a that was passed in has the kind and the parameters it had before the
\* call.
CheckLeavesInputUnchanged ==
  Checked => routed = proposed

----------------------------------------------------------------------------
(* Properties of the end of a turn and of the executor *)

\* run_tool has been called in this turn and has returned
Invoked == run_tool_calls = 1

\* the answer of the remote host to the last session of the invocation
LastOutcome == IF outcomes[2] # "none" THEN outcomes[2] ELSE outcomes[1]

MetricKinds == { "get_disk_free", "get_ram_usage", "get_cpu_usage", "get_uptime" }

\* C14: every turn ends with renderable output and no fault leaves the turn
\* handler: under every classifier behaviour and every behaviour of the
\* remote host the turn ends with a reply streamed to its done event or
\* with an error event, and no exception propagates out of generate().
TurnEndsRendered ==
  /\ pc # "crashed"
  /\ pc = "done" =>
       \/ events = <<"error">>
       \/ (Len(events) >= 1 /\ events[Len(events)] = "done")

\* C15: for each resource-metric kind, when the remote command exits
\* non-zero or the connection to the remote host fails, the text run_tool
\* returns starts with "Error: ".
MetricFailureStartsWithError ==
  ( /\ Invoked
    /\ run_tool_arg.action.s \in MetricKinds
    /\ LastOutcome \in { "exit1", "exit2", "connect_fail", "exec_fail" } )
  => StartsWith(tool_output.head, T_ErrorColon)

\* C16: for every approved log-tail action the line count of the remote
\* tail command is the `lines` value of the action check returned.
TailUsesApprovedLines ==
  ( /\ Invoked
    /\ run_tool_arg.action.s \in TailTools
    /\ check_ret.lines.t = "int" )
  =>
    /\ remote.cmd \in { "tail_error", "tail_access" }
    /\ remote.n = check_ret.lines.n

\* C17 as stated: each invocation that reaches the remote host opens
\* exactly one session, and every session it opened is closed when it
\* returns.
OneSessionPerInvocation ==
  (Invoked /\ remote # NoCmd /\ outcomes[1] # "connect_fail") =>
    /\ sessions_opened = 1
    /\ sessions_open = 0

\* C17 as amended: an invocation opens one session for each remote
\* operation it carries out: none when it stops before any (rejected
\* filename, failed connect), one otherwise, except that get_uptime opens a
\* second one, after the first is closed, when its first command exits
\* non-zero; every session opened is closed when the invocation returns,
\* whether the operation succeeded, exited non-zero or raised; no session
\* stays open across invocations.
SessionsClosedOnReturn ==
  /\ sessions_open = 0
  /\ sessions_opened <= 2
  /\ sessions_opened = 2 =>
       /\ run_tool_arg.action = Str("get_uptime")
       /\ outcomes[1] \in { "exit1", "exit2" }
       /\ outcomes[2] \notin { "none", "connect_fail" }
  /\ (Invoked /\ remote # NoCmd /\ outcomes[1] # "connect_fail") =>
       sessions_opened >= 1
  /\ (Invoked /\ (remote = NoCmd \/ outcomes[1] = "connect_fail")) =>
       sessions_opened = 0
  /\ ~Invoked => sessions_opened = 0

\* get_uptime's first command exited non-zero and its second one raised:
\* two sessions were opened, and both were closed by the end of the turn
SessionsClosedOnReturnWitness ==
  /\ pc = "done"
  /\ run_tool_arg.action = Str("get_uptime")
  /\ outcomes = << "exit1", "exec_fail" >>
  /\ sessions_opened = 2
  /\ sessions_open = 0

\* C18: for every filename that passed the path screen of check, the path
\* a file tool reads or writes is the workspace root joined with exactly
\* one non-empty component that holds no "/" and is neither "." nor "..".
FileTargetsInsideWorkspace ==
  remote.cmd \in { "sftp_read", "sftp_write" } =>
    LET root == SSH_WORKDIR \o <<"/">>
        path == remote.path
        name == SubSeq(path, Len(root) + 1, Len(path))
    IN  /\ StartsWith(path, root)
        /\ Len(name) >= 1
        /\ \A i \in DOMAIN name : name[i] # "/"
        /\ name # <<".">>
        /\ name # <<".", ".">>

====
